---- MODULE Spec2Model ----
(***************************************************************************)
(* Model of the scheduling core of schedule.cpp: struct Simulation, its    *)
(* ready queue, blocked deque and dispatch loop (Simulation::run), at the  *)
(* granularity of one step per dispatch, per sub-step of a CPU segment,    *)
(* per segment end and per idle jump; then print_stats_and_finish, the     *)
(* done flag of scheduler_thread and the polling loop of main.             *)
(***************************************************************************)
EXTENDS Integers, Sequences, FiniteSets, TLC

\* ------------------------------------------------------------------ bounds
\* Largest number of processes (lines of the bursts file) in a generated input.
MaxProcs == 3
\* Largest sum of all bursts of all processes of a generated input.
MaxTotal == 9
\* Largest value of -q in a generated configuration.
MaxQuantum == 2
\* A single call of advance_blocked: the most entries in the blocked deque,
\* the largest remaining_io of an entry, the largest |dt|.
AdvProcs == 2
AdvMaxIo == 3
AdvMaxDt == 2
\* Two runs side by side: the most processes, the largest sum of all bursts
\* and the largest quantum of the inputs they are started from.
PairProcs == 2
PairTotal == 7
PairMaxQuantum == 3

\* --------------------------------------------------------------- constants
\* Proc::completion_time before the process completes.
Unset == -1
\* "No process": Proc* p of run() outside a CPU segment.
NoProc == -1

\* --------------------------------------------------------------- utilities
Min(a, b) == IF a < b THEN a ELSE b

Front(s) == SubSeq(s, 1, Len(s) - 1)

Last(s) == s[Len(s)]

RECURSIVE SumSeq(_)
SumSeq(s) == IF s = <<>> THEN 0 ELSE Head(s) + SumSeq(Tail(s))

\* Number of indices of s whose element satisfies nothing but equality with x.
Occurrences(s, x) == Cardinality({i \in 1..Len(s) : s[i] = x})

\* ------------------------------------------------------------------ inputs
\* What read_bursts lets through: per line a non-empty, odd-length list of
\* positive integers. BurstLists(budget) are those whose sum is at most budget.
RECURSIVE BurstsOf(_, _)
BurstsOf(k, budget) ==
    IF k = 0 THEN {<<>>}
    ELSE UNION {{<<x>> \o rest : rest \in BurstsOf(k - 1, budget - x)} :
                    x \in 1..(budget - (k - 1))}

BurstLists(budget) ==
    UNION {BurstsOf(k, budget) : k \in {m \in 1..budget : m % 2 = 1}}

\* The inputs of exactly n lines whose bursts sum to at most budget in all.
RECURSIVE InputsOf(_, _)
InputsOf(n, budget) ==
    IF n = 0 THEN {<<>>}
    ELSE UNION {{<<b>> \o rest : rest \in InputsOf(n - 1, budget - SumSeq(b))} :
                    b \in BurstLists(budget - (n - 1))}

\* The four worked scenarios of the specification's section 8.
ScenarioA == << <<5>> >>
ScenarioB == << <<3, 2, 4>> >>
ScenarioC == << <<4>>, <<4>> >>
ScenarioD == << <<2, 3, 2>>, <<5>> >>

Inputs ==
    UNION {InputsOf(n, MaxTotal) : n \in 0..MaxProcs}
        \cup {ScenarioA, ScenarioB, ScenarioC, ScenarioD}

VARIABLES
    lines,            \* the std::vector<BurstLine> given to init_from_lines
    strategy,         \* opt.strategy
    quantum,          \* opt.quantum
    time_elapsed,     \* Simulation::time_elapsed
    ready,            \* Simulation::ready, a FIFO of pids
    blocked,          \* Simulation::blocked, a deque of BlockedItem
    bursts,           \* Proc::bursts, per pid
    executed_cpu,     \* Proc::executed_cpu, per pid
    executed_io,      \* Proc::executed_io, per pid
    total_cpu,        \* Proc::total_cpu, per pid
    total_io,         \* Proc::total_io, per pid
    completion_time,  \* Proc::completion_time, per pid
    completed,        \* Simulation::completed, (completion_time, pid) pairs
    order_counter,    \* Simulation::order_counter
    pc,               \* "init" before init_from_lines, then the position of
                      \* scheduler_thread: in run() "loop", "segment",
                      \* "returned"; "printed" after print_stats_and_finish;
                      \* "finished" after done.store(true)
    done,             \* Shared::done
    main_pc,          \* position of main: "setup", "poll", "exited"
    stats,            \* the log_process_completion calls made so far
    running,          \* run()'s local p during a CPU segment
    cpu_remaining,    \* run()'s local cpu_remaining
    segment,          \* run()'s local segment
    remaining,        \* run()'s local remaining
    events,           \* the log_cpuburst_execution calls made so far
    \* observers: they record history and are read by no action's guard
    enq_stamp,        \* per pid, the number of the ready.push that last queued it
    enq_counter,      \* number of ready.push calls so far
    ready_wait,       \* per pid, simulated time spent queued in ready
    dispatch_clock,   \* time_elapsed when the current iteration began
    dispatch_cpu,     \* executed_cpu of p when it was dispatched
    substeps,         \* passes of the sub-step loop made in the current segment
    released,         \* pids the last step moved from blocked to ready, in order
    io_enter,         \* per pid, the clock, executed_io and I/O burst at its
                      \* last entry into blocked
    \* state of the side-by-side and single-call specifications below
    pair,             \* two simulations stepped together
    call              \* one call of advance_blocked and its outcome

vars == <<lines, strategy, quantum, time_elapsed, ready, blocked, bursts,
          executed_cpu, executed_io, total_cpu, total_io, completion_time,
          completed, order_counter, pc, running, cpu_remaining, segment,
          remaining, events, enq_stamp, enq_counter, ready_wait,
          dispatch_clock, dispatch_cpu, substeps, released, done, main_pc,
          stats, io_enter, pair, call>>

\* What main and the end of scheduler_thread add to the simulation.
hostVars == <<done, main_pc, stats>>

\* What only the side specifications change.
sideVars == <<pair, call>>

Pids == 0..(Len(lines) - 1)

\* ---------------------------------------------------------- blocked deque
\* The comparator with ties on remaining_io broken by order descending.
BlockedLess_TieReversed(a, b) ==
    IF a.remaining_io # b.remaining_io
        THEN a.remaining_io < b.remaining_io
        ELSE a.order > b.order

\* The comparator of stable_sort_blocked.
BlockedLess(a, b) ==
    IF a.remaining_io # b.remaining_io
        THEN a.remaining_io < b.remaining_io
        ELSE a.order < b.order

RECURSIVE InsertSorted(_, _)
InsertSorted(x, s) ==
    IF s = <<>> THEN <<x>>
    ELSE IF BlockedLess(x, Last(s))
        THEN Append(InsertSorted(x, Front(s)), Last(s))
        ELSE Append(s, x)

\* std::stable_sort under BlockedLess: elements the comparator does not
\* separate keep their relative order.
RECURSIVE StableSortBlocked(_)
StableSortBlocked(b) ==
    IF b = <<>> THEN <<>>
    ELSE InsertSorted(Last(b), StableSortBlocked(Front(b)))

\* ------------------------------------------------ operations on the state
\* The part of the Simulation the helper methods read and write.
Sim ==
    [ready |-> ready, blocked |-> blocked, bursts |-> bursts,
     executed_io |-> executed_io, order_counter |-> order_counter,
     enq_stamp |-> enq_stamp, enq_counter |-> enq_counter,
     released |-> <<>>]

\* enqueue_ready that puts p at the front of the queue.
EnqueueReady_Front(S, p) ==
    [S EXCEPT !.ready = <<p>> \o @,
              !.enq_stamp[p] = S.enq_counter,
              !.enq_counter = @ + 1]

EnqueueReady(S, p) ==
    [S EXCEPT !.ready = Append(@, p),
              !.enq_stamp[p] = S.enq_counter,
              !.enq_counter = @ + 1]

\* move_to_blocked without the stable_sort_blocked call.
MoveToBlocked_NoSort(S, p) ==
    LET b1 == IF S.bursts[p] # <<>> /\ Head(S.bursts[p]) = 0
                  THEN Tail(S.bursts[p]) ELSE S.bursts[p]
        S1 == [S EXCEPT !.bursts[p] = b1]
    IN  IF b1 # <<>>
            THEN [S1 EXCEPT
                    !.blocked = Append(@, [p |-> p, remaining_io |-> Head(b1),
                                           order |-> S.order_counter]),
                    !.order_counter = @ + 1]
            ELSE S1

MoveToBlocked(S, p) ==
    LET b1 == IF S.bursts[p] # <<>> /\ Head(S.bursts[p]) = 0
                  THEN Tail(S.bursts[p]) ELSE S.bursts[p]
        S1 == [S EXCEPT !.bursts[p] = b1]
    IN  IF b1 # <<>>
            THEN [S1 EXCEPT
                    !.blocked = StableSortBlocked(
                        Append(@, [p |-> p, remaining_io |-> Head(b1),
                                   order |-> S.order_counter])),
                    !.order_counter = @ + 1]
            ELSE S1

\* DecrementFrom without `bi.p->executed_io += dec`.
RECURSIVE DecrementFrom_NoIoCredit(_, _, _)
DecrementFrom_NoIoCredit(S, i, step) ==
    IF i > Len(S.blocked) THEN S
    ELSE LET bi  == S.blocked[i]
             dec == Min(step, bi.remaining_io)
         IN  DecrementFrom_NoIoCredit(
                 [S EXCEPT !.blocked[i].remaining_io = @ - dec],
                 i + 1, step)

\* First loop of advance_blocked's body: every entry from index i on loses
\* min(step, remaining_io), which its process gains as executed_io.
RECURSIVE DecrementFrom(_, _, _)
DecrementFrom(S, i, step) ==
    IF i > Len(S.blocked) THEN S
    ELSE LET bi  == S.blocked[i]
             dec == Min(step, bi.remaining_io)
         IN  DecrementFrom(
                 [S EXCEPT !.blocked[i].remaining_io = @ - dec,
                           !.executed_io[bi.p] = @ + dec],
                 i + 1, step)

\* The second loop moving only the first entry that reached zero.
RECURSIVE MoveFinishedFrom_FirstOnly(_, _, _)
MoveFinishedFrom_FirstOnly(S, i, keep) ==
    IF i > Len(S.blocked) THEN [S EXCEPT !.blocked = keep]
    ELSE LET bi == S.blocked[i]
         IN  IF bi.remaining_io = 0 /\ S.released = <<>>
                 THEN MoveFinishedFrom_FirstOnly(
                          EnqueueReady(
                              [S EXCEPT !.bursts[bi.p] =
                                            IF @ # <<>> THEN Tail(@) ELSE @,
                                        !.released = Append(@, bi.p)],
                              bi.p),
                          i + 1, keep)
                 ELSE MoveFinishedFrom_FirstOnly(S, i + 1, Append(keep, bi))

\* Second loop: entries at zero leave in the deque's order, each losing its
\* I/O burst and joining ready; the others are kept in `keep`.
RECURSIVE MoveFinishedFrom(_, _, _)
MoveFinishedFrom(S, i, keep) ==
    IF i > Len(S.blocked) THEN [S EXCEPT !.blocked = keep]
    ELSE LET bi == S.blocked[i]
         IN  IF bi.remaining_io = 0
                 THEN MoveFinishedFrom(
                          EnqueueReady(
                              [S EXCEPT !.bursts[bi.p] =
                                            IF @ # <<>> THEN Tail(@) ELSE @,
                                        !.released = Append(@, bi.p)],
                              bi.p),
                          i + 1, keep)
                 ELSE MoveFinishedFrom(S, i + 1, Append(keep, bi))

RECURSIVE AdvanceBlocked(_, _)
AdvanceBlocked(S, t) ==
    IF ~(t > 0 /\ S.blocked # <<>>) THEN S
    ELSE LET sorted      == StableSortBlocked(S.blocked)
             next_finish == sorted[1].remaining_io
             step        == Min(next_finish, t)
             S1 == DecrementFrom([S EXCEPT !.blocked = sorted], 1, step)
             S2 == MoveFinishedFrom(S1, 1, <<>>)
         IN  AdvanceBlocked(S2, t - step)

\* ------------------------------------------------------------ construction
\* The CPU total taken over every burst, I/O bursts included.
TotalCpu_AllBursts(bl) == SumSeq(bl)

\* init_from_lines: totals per burst parity.
TotalCpu(bl) == SumSeq([k \in 1..((Len(bl) + 1) \div 2) |-> bl[2 * k - 1]])

TotalIo(bl) == SumSeq([k \in 1..(Len(bl) \div 2) |-> bl[2 * k]])

\* init_from_lines: the ready queue holds every process, in pid order.
SeedReady(n) == [i \in 1..n |-> i - 1]

\* The state main() reaches at line 325: options parsed, the Simulation
\* constructed and still empty.
Init ==
    /\ lines = <<>>
    /\ strategy \in {"FCFS", "RR"}
    /\ quantum \in 1..MaxQuantum
    /\ time_elapsed = 0
    /\ ready = <<>>
    /\ blocked = <<>>
    /\ bursts = <<>>
    /\ executed_cpu = <<>>
    /\ executed_io = <<>>
    /\ total_cpu = <<>>
    /\ total_io = <<>>
    /\ completion_time = <<>>
    /\ completed = <<>>
    /\ order_counter = 0
    /\ pc = "init"
    /\ running = NoProc
    /\ cpu_remaining = 0
    /\ segment = 0
    /\ remaining = 0
    /\ events = <<>>
    /\ enq_stamp = <<>>
    /\ enq_counter = 0
    /\ ready_wait = <<>>
    /\ dispatch_clock = 0
    /\ dispatch_cpu = 0
    /\ substeps = 0
    /\ released = <<>>
    /\ done = FALSE
    /\ main_pc = "setup"
    /\ stats = <<>>
    /\ io_enter = <<>>
    /\ pair = <<>>
    /\ call = <<>>

\* sim.init_from_lines(lines) on what read_bursts returned, then
\* pthread_create: the scheduler thread enters run() and main starts polling.
InitFromLines ==
    /\ pc = "init"
    /\ \E ls \in Inputs :
          LET ids == 0..(Len(ls) - 1)
          IN  /\ lines' = ls
              /\ bursts' = [p \in ids |-> ls[p + 1]]
              /\ executed_cpu' = [p \in ids |-> 0]
              /\ executed_io' = [p \in ids |-> 0]
              /\ total_cpu' = [p \in ids |-> TotalCpu(ls[p + 1])]
              /\ total_io' = [p \in ids |-> TotalIo(ls[p + 1])]
              /\ completion_time' = [p \in ids |-> Unset]
              /\ ready' = SeedReady(Len(ls))
              /\ enq_stamp' = [p \in ids |-> p]
              /\ enq_counter' = Len(ls)
              /\ ready_wait' = [p \in ids |-> 0]
              /\ io_enter' = [p \in ids |-> [clock |-> 0, io |-> 0, burst |-> 0]]
    /\ pc' = "loop"
    /\ main_pc' = "poll"
    /\ UNCHANGED <<done, stats, sideVars, strategy, quantum, time_elapsed, blocked, completed,
                   order_counter, running, cpu_remaining, segment, remaining,
                   events, dispatch_clock, dispatch_cpu, substeps, released>>

\* ------------------------------------------------------------------- run()
\* SegmentLength that caps the segment at the quantum under either strategy.
SegmentLength_AlwaysQuantum(strat, cpu_rem, q) == Min(cpu_rem, q)

\* Length of the CPU segment of a dispatch.
SegmentLength(strat, cpu_rem, q) ==
    IF strat = "FCFS" THEN cpu_rem ELSE Min(cpu_rem, q)

\* The sub-step that runs the whole rest of the segment at once.
SubStepLength_WholeSegment(rem, b) == rem

\* Length of one sub-step of a segment; b is the sorted blocked deque.
SubStepLength(rem, b) ==
    IF b # <<>> /\ b[1].remaining_io > 0
        THEN Min(rem, b[1].remaining_io)
        ELSE rem

\* The time every queued process waits while the clock advances by step.
Waited(rw, rdy, step) ==
    [p \in DOMAIN rw |-> IF Occurrences(rdy, p) > 0 THEN rw[p] + step ELSE rw[p]]

Event(p, cpu, io, t, reason) ==
    [pid |-> p, executed_cpu |-> cpu, executed_io |-> io, time |-> t,
     reason |-> reason]

\* Dispatch without `ready.pop()`.
Dispatch_NoPop ==
    /\ pc = "loop"
    /\ ready # <<>>
    /\ LET p == Head(ready)
       IN  /\ running' = p
           /\ cpu_remaining' = Head(bursts[p])
           /\ segment' = SegmentLength(strategy, Head(bursts[p]), quantum)
           /\ remaining' = SegmentLength(strategy, Head(bursts[p]), quantum)
           /\ dispatch_cpu' = executed_cpu[p]
    /\ dispatch_clock' = time_elapsed
    /\ substeps' = 0
    /\ released' = <<>>
    /\ pc' = "segment"
    /\ UNCHANGED <<hostVars, sideVars, io_enter, lines, strategy, quantum, time_elapsed, ready, blocked,
                   bursts, executed_cpu, executed_io, total_cpu, total_io,
                   completion_time, completed, order_counter, events,
                   enq_stamp, enq_counter, ready_wait>>

\* ready non-empty: pop the front and size its segment.
Dispatch ==
    /\ pc = "loop"
    /\ ready # <<>>
    /\ LET p == Head(ready)
       IN  /\ running' = p
           /\ ready' = Tail(ready)
           /\ cpu_remaining' = Head(bursts[p])
           /\ segment' = SegmentLength(strategy, Head(bursts[p]), quantum)
           /\ remaining' = SegmentLength(strategy, Head(bursts[p]), quantum)
           /\ dispatch_cpu' = executed_cpu[p]
    /\ dispatch_clock' = time_elapsed
    /\ substeps' = 0
    /\ released' = <<>>
    /\ pc' = "segment"
    /\ UNCHANGED <<hostVars, sideVars, io_enter, lines, strategy, quantum, time_elapsed, blocked, bursts,
                   executed_cpu, executed_io, total_cpu, total_io,
                   completion_time, completed, order_counter, events,
                   enq_stamp, enq_counter, ready_wait>>

\* SubStep that ends the segment as soon as an I/O completion reaches ready.
SubStep_Preempt ==
    /\ pc = "segment"
    /\ remaining > 0
    /\ LET p      == running
           sorted == StableSortBlocked(blocked)
           step   == SubStepLength(remaining, sorted)
           S0     == [Sim EXCEPT !.blocked = sorted,
                                 !.bursts[p][1] = @ - step]
           S1     == AdvanceBlocked(S0, step)
       IN  /\ executed_cpu' = [executed_cpu EXCEPT ![p] = @ + step]
           /\ time_elapsed' = time_elapsed + step
           /\ remaining' = IF S1.released # <<>> THEN 0 ELSE remaining - step
           /\ ready' = S1.ready
           /\ blocked' = S1.blocked
           /\ bursts' = S1.bursts
           /\ executed_io' = S1.executed_io
           /\ order_counter' = S1.order_counter
           /\ enq_stamp' = S1.enq_stamp
           /\ enq_counter' = S1.enq_counter
           /\ ready_wait' = Waited(ready_wait, ready, step)
           /\ released' = S1.released
    /\ substeps' = substeps + 1
    /\ UNCHANGED <<hostVars, sideVars, io_enter, lines, strategy, quantum, total_cpu, total_io,
                   completion_time, completed, pc, running, cpu_remaining,
                   segment, events, dispatch_clock, dispatch_cpu>>

\* SubStep without `time_elapsed += step`.
SubStep_NoClock ==
    /\ pc = "segment"
    /\ remaining > 0
    /\ LET p      == running
           sorted == StableSortBlocked(blocked)
           step   == SubStepLength(remaining, sorted)
           S0     == [Sim EXCEPT !.blocked = sorted,
                                 !.bursts[p][1] = @ - step]
           S1     == AdvanceBlocked(S0, step)
       IN  /\ executed_cpu' = [executed_cpu EXCEPT ![p] = @ + step]
           /\ time_elapsed' = time_elapsed
           /\ remaining' = remaining - step
           /\ ready' = S1.ready
           /\ blocked' = S1.blocked
           /\ bursts' = S1.bursts
           /\ executed_io' = S1.executed_io
           /\ order_counter' = S1.order_counter
           /\ enq_stamp' = S1.enq_stamp
           /\ enq_counter' = S1.enq_counter
           /\ ready_wait' = Waited(ready_wait, ready, step)
           /\ released' = S1.released
    /\ substeps' = substeps + 1
    /\ UNCHANGED <<hostVars, sideVars, io_enter, lines, strategy, quantum, total_cpu, total_io,
                   completion_time, completed, pc, running, cpu_remaining,
                   segment, events, dispatch_clock, dispatch_cpu>>

\* One pass of `while (remaining > 0)`.
SubStep ==
    /\ pc = "segment"
    /\ remaining > 0
    /\ LET p      == running
           sorted == StableSortBlocked(blocked)
           step   == SubStepLength(remaining, sorted)
           S0     == [Sim EXCEPT !.blocked = sorted,
                                 !.bursts[p][1] = @ - step]
           S1     == AdvanceBlocked(S0, step)
       IN  /\ executed_cpu' = [executed_cpu EXCEPT ![p] = @ + step]
           /\ time_elapsed' = time_elapsed + step
           /\ remaining' = remaining - step
           /\ ready' = S1.ready
           /\ blocked' = S1.blocked
           /\ bursts' = S1.bursts
           /\ executed_io' = S1.executed_io
           /\ order_counter' = S1.order_counter
           /\ enq_stamp' = S1.enq_stamp
           /\ enq_counter' = S1.enq_counter
           /\ ready_wait' = Waited(ready_wait, ready, step)
           /\ released' = S1.released
    /\ substeps' = substeps + 1
    /\ UNCHANGED <<hostVars, sideVars, io_enter, lines, strategy, quantum, total_cpu, total_io,
                   completion_time, completed, pc, running, cpu_remaining,
                   segment, events, dispatch_clock, dispatch_cpu>>

\* SegmentEnd that puts a process whose quantum expired in front of the
\* processes the last sub-step moved from blocked to ready.
SegmentEnd_ExpiredFirst ==
    /\ pc = "segment"
    /\ ~(remaining > 0)
    /\ LET p == running
       IN  IF Head(bursts[p]) = 0
           THEN LET popped == Tail(bursts[p])
                IN  IF popped = <<>>
                    THEN /\ bursts' = [bursts EXCEPT ![p] = popped]
                         /\ completion_time' =
                                [completion_time EXCEPT ![p] = time_elapsed]
                         /\ completed' = Append(completed, <<time_elapsed, p>>)
                         /\ events' = Append(events,
                                Event(p, executed_cpu[p], executed_io[p],
                                      time_elapsed, "COMPLETED"))
                         /\ UNCHANGED <<ready, blocked, order_counter,
                                        enq_stamp, enq_counter>>
                    ELSE LET S1 == MoveToBlocked(
                                       [Sim EXCEPT !.bursts[p] = popped], p)
                         IN  /\ bursts' = S1.bursts
                             /\ blocked' = S1.blocked
                             /\ order_counter' = S1.order_counter
                             /\ events' = Append(events,
                                    Event(p, executed_cpu[p], executed_io[p],
                                          time_elapsed, "ENTER_IO"))
                             /\ UNCHANGED <<ready, completion_time, completed,
                                            enq_stamp, enq_counter>>
           ELSE LET S1 == EnqueueReady(Sim, p)
                    k  == Len(ready) - Len(released)
                IN  /\ ready' = SubSeq(ready, 1, k) \o <<p>>
                                   \o SubSeq(ready, k + 1, Len(ready))
                    /\ enq_stamp' = S1.enq_stamp
                    /\ enq_counter' = S1.enq_counter
                    /\ events' = Append(events,
                           Event(p, executed_cpu[p], executed_io[p],
                                 time_elapsed, "QUANTUM_EXPIRED"))
                    /\ UNCHANGED <<bursts, blocked, order_counter,
                                   completion_time, completed>>
    /\ pc' = "loop"
    /\ running' = NoProc
    /\ io_enter' =
           IF Head(bursts[running]) = 0 /\ Tail(bursts[running]) # <<>>
               THEN [io_enter EXCEPT ![running] =
                        [clock |-> time_elapsed,
                         io    |-> executed_io[running],
                         burst |-> Head(Tail(bursts[running]))]]
               ELSE io_enter
    /\ cpu_remaining' = 0
    /\ segment' = 0
    /\ released' = <<>>
    /\ UNCHANGED <<hostVars, sideVars, lines, strategy, quantum, time_elapsed, executed_cpu,
                   executed_io, total_cpu, total_io, remaining, ready_wait,
                   dispatch_clock, dispatch_cpu, substeps>>

\* After the segment: completed, entering I/O, or quantum expired.
SegmentEnd ==
    /\ pc = "segment"
    /\ ~(remaining > 0)
    /\ LET p == running
       IN  IF Head(bursts[p]) = 0
           THEN LET popped == Tail(bursts[p])
                IN  IF popped = <<>>
                    THEN /\ bursts' = [bursts EXCEPT ![p] = popped]
                         /\ completion_time' =
                                [completion_time EXCEPT ![p] = time_elapsed]
                         /\ completed' = Append(completed, <<time_elapsed, p>>)
                         /\ events' = Append(events,
                                Event(p, executed_cpu[p], executed_io[p],
                                      time_elapsed, "COMPLETED"))
                         /\ UNCHANGED <<ready, blocked, order_counter,
                                        enq_stamp, enq_counter>>
                    ELSE LET S1 == MoveToBlocked(
                                       [Sim EXCEPT !.bursts[p] = popped], p)
                         IN  /\ bursts' = S1.bursts
                             /\ blocked' = S1.blocked
                             /\ order_counter' = S1.order_counter
                             /\ events' = Append(events,
                                    Event(p, executed_cpu[p], executed_io[p],
                                          time_elapsed, "ENTER_IO"))
                             /\ UNCHANGED <<ready, completion_time, completed,
                                            enq_stamp, enq_counter>>
           ELSE LET S1 == EnqueueReady(Sim, p)
                IN  /\ ready' = S1.ready
                    /\ enq_stamp' = S1.enq_stamp
                    /\ enq_counter' = S1.enq_counter
                    /\ events' = Append(events,
                           Event(p, executed_cpu[p], executed_io[p],
                                 time_elapsed, "QUANTUM_EXPIRED"))
                    /\ UNCHANGED <<bursts, blocked, order_counter,
                                   completion_time, completed>>
    /\ pc' = "loop"
    /\ running' = NoProc
    /\ io_enter' =
           IF Head(bursts[running]) = 0 /\ Tail(bursts[running]) # <<>>
               THEN [io_enter EXCEPT ![running] =
                        [clock |-> time_elapsed,
                         io    |-> executed_io[running],
                         burst |-> Head(Tail(bursts[running]))]]
               ELSE io_enter
    /\ cpu_remaining' = 0
    /\ segment' = 0
    /\ released' = <<>>
    /\ UNCHANGED <<hostVars, sideVars, lines, strategy, quantum, time_elapsed, executed_cpu,
                   executed_io, total_cpu, total_io, remaining, ready_wait,
                   dispatch_clock, dispatch_cpu, substeps>>

\* IdleJump without `time_elapsed += step`.
IdleJump_NoClock ==
    /\ pc = "loop"
    /\ ready = <<>>
    /\ blocked # <<>>
    /\ LET sorted == StableSortBlocked(blocked)
           step   == sorted[1].remaining_io
           S1     == AdvanceBlocked([Sim EXCEPT !.blocked = sorted], step)
       IN  /\ ready' = S1.ready
           /\ blocked' = S1.blocked
           /\ bursts' = S1.bursts
           /\ executed_io' = S1.executed_io
           /\ order_counter' = S1.order_counter
           /\ enq_stamp' = S1.enq_stamp
           /\ enq_counter' = S1.enq_counter
           /\ ready_wait' = Waited(ready_wait, ready, step)
           /\ released' = S1.released
    /\ dispatch_clock' = time_elapsed
    /\ UNCHANGED <<hostVars, sideVars, io_enter, lines, strategy, quantum, time_elapsed, executed_cpu,
                   total_cpu, total_io, completion_time, completed, pc,
                   running, cpu_remaining, segment, remaining, events,
                   dispatch_cpu, substeps>>

\* ready empty, blocked not: jump to the earliest I/O completion.
IdleJump ==
    /\ pc = "loop"
    /\ ready = <<>>
    /\ blocked # <<>>
    /\ LET sorted == StableSortBlocked(blocked)
           step   == sorted[1].remaining_io
           S1     == AdvanceBlocked([Sim EXCEPT !.blocked = sorted], step)
       IN  /\ ready' = S1.ready
           /\ blocked' = S1.blocked
           /\ bursts' = S1.bursts
           /\ executed_io' = S1.executed_io
           /\ order_counter' = S1.order_counter
           /\ enq_stamp' = S1.enq_stamp
           /\ enq_counter' = S1.enq_counter
           /\ time_elapsed' = time_elapsed + step
           /\ ready_wait' = Waited(ready_wait, ready, step)
           /\ released' = S1.released
    /\ dispatch_clock' = time_elapsed
    /\ UNCHANGED <<hostVars, sideVars, io_enter, lines, strategy, quantum, executed_cpu, total_cpu, total_io,
                   completion_time, completed, pc, running, cpu_remaining,
                   segment, remaining, events, dispatch_cpu, substeps>>

\* RunReturn that breaks as soon as ready is empty, whatever blocked holds.
RunReturn_IgnoreBlocked ==
    /\ pc = "loop"
    /\ ready = <<>>
    /\ pc' = "returned"
    /\ UNCHANGED <<hostVars, sideVars, io_enter, lines, strategy, quantum, time_elapsed, ready, blocked,
                   bursts, executed_cpu, executed_io, total_cpu, total_io,
                   completion_time, completed, order_counter, running,
                   cpu_remaining, segment, remaining, events, enq_stamp,
                   enq_counter, ready_wait, dispatch_clock, dispatch_cpu,
                   substeps, released>>

\* Both empty: break out of the loop; run() returns.
RunReturn ==
    /\ pc = "loop"
    /\ ready = <<>>
    /\ blocked = <<>>
    /\ pc' = "returned"
    /\ UNCHANGED <<hostVars, sideVars, io_enter, lines, strategy, quantum, time_elapsed, ready, blocked,
                   bursts, executed_cpu, executed_io, total_cpu, total_io,
                   completion_time, completed, order_counter, running,
                   cpu_remaining, segment, remaining, events, enq_stamp,
                   enq_counter, ready_wait, dispatch_clock, dispatch_cpu,
                   substeps, released>>

\* ------------------------------------------------ print_stats_and_finish
\* The wait computed with the I/O total left out.
Wait_CpuOnly(p) == completion_time[p] - total_cpu[p]

\* int turnaround, wait of print_stats_and_finish for process p.
Turnaround(p) == completion_time[p]

Wait(p) == Turnaround(p) - (total_cpu[p] + total_io[p])

\* The comparison by process id alone.
PairLess_ByPid(a, b) == a[2] < b[2]

\* std::pair's operator<, which std::stable_sort(completed) sorts by.
PairLess(a, b) == a[1] < b[1] \/ (a[1] = b[1] /\ a[2] < b[2])

RECURSIVE InsertPair(_, _)
InsertPair(x, s) ==
    IF s = <<>> THEN <<x>>
    ELSE IF PairLess(x, Last(s))
        THEN Append(InsertPair(x, Front(s)), Last(s))
        ELSE Append(s, x)

RECURSIVE SortCompleted(_)
SortCompleted(c) ==
    IF c = <<>> THEN <<>>
    ELSE InsertPair(Last(c), SortCompleted(Front(c)))

StatsEvent(p) == [pid |-> p, turnaround |-> Turnaround(p), wait |-> Wait(p)]

\* scheduler_thread after run(): sort completed, log one line per record.
PrintStats ==
    /\ pc = "returned"
    /\ completed' = SortCompleted(completed)
    /\ stats' = [i \in 1..Len(completed) |->
                    StatsEvent(SortCompleted(completed)[i][2])]
    /\ pc' = "printed"
    /\ UNCHANGED <<done, main_pc, sideVars, io_enter, lines, strategy, quantum,
                   time_elapsed, ready, blocked, bursts, executed_cpu,
                   executed_io, total_cpu, total_io, completion_time,
                   order_counter, running, cpu_remaining, segment, remaining,
                   events, enq_stamp, enq_counter, ready_wait, dispatch_clock,
                   dispatch_cpu, substeps, released>>

\* scheduler_thread: shared->done.store(true), then return.
SetDone ==
    /\ pc = "printed"
    /\ done' = TRUE
    /\ pc' = "finished"
    /\ UNCHANGED <<main_pc, stats, sideVars, io_enter, lines, strategy, quantum,
                   time_elapsed, ready, blocked, bursts, executed_cpu,
                   executed_io, total_cpu, total_io, completion_time,
                   completed, order_counter, running, cpu_remaining, segment,
                   remaining, events, enq_stamp, enq_counter, ready_wait,
                   dispatch_clock, dispatch_cpu, substeps, released>>

\* main: done.load() gave false; sleep and poll again.
MainSleep ==
    /\ main_pc = "poll"
    /\ ~done
    /\ UNCHANGED vars

\* main leaving the polling loop without looking at the flag.
MainExit_NoPoll ==
    /\ main_pc = "poll"
    /\ main_pc' = "exited"
    /\ UNCHANGED <<done, stats, sideVars, io_enter, lines, strategy, quantum,
                   time_elapsed, ready, blocked, bursts, executed_cpu,
                   executed_io, total_cpu, total_io, completion_time,
                   completed, order_counter, pc, running, cpu_remaining,
                   segment, remaining, events, enq_stamp, enq_counter,
                   ready_wait, dispatch_clock, dispatch_cpu, substeps,
                   released>>

\* main: done.load() gave true; leave the loop and return 0.
MainExit ==
    /\ main_pc = "poll"
    /\ done
    /\ main_pc' = "exited"
    /\ UNCHANGED <<done, stats, sideVars, io_enter, lines, strategy, quantum,
                   time_elapsed, ready, blocked, bursts, executed_cpu,
                   executed_io, total_cpu, total_io, completion_time,
                   completed, order_counter, pc, running, cpu_remaining,
                   segment, remaining, events, enq_stamp, enq_counter,
                   ready_wait, dispatch_clock, dispatch_cpu, substeps,
                   released>>

Next ==
    \/ InitFromLines \/ Dispatch \/ SubStep \/ SegmentEnd \/ IdleJump
    \/ RunReturn \/ PrintStats \/ SetDone \/ MainSleep \/ MainExit

Spec == Init /\ [][Next]_vars

\* run() has returned.
RunReturned == pc \in {"returned", "printed", "finished"}

\* ------------------------------------------------------------------ claims
BlockedPids == [i \in 1..Len(blocked) |-> blocked[i].p]

CompletedPids == [i \in 1..Len(completed) |-> completed[i][2]]

\* In how many of {ready, blocked, executing, completed} process p is,
\* counting every occurrence in a container.
Places(p) ==
    Occurrences(ready, p) + Occurrences(BlockedPids, p)
        + (IF running = p THEN 1 ELSE 0)
        + (IF completion_time[p] # Unset THEN 1 ELSE 0)

\* C1: in every reachable state (iteration boundaries and every sub-step of a
\* CPU segment) each process is in exactly one of ready queue, blocked set,
\* executing, completed; none is in both ready and blocked, and none occurs
\* twice in ready or twice in blocked.
C1_ExactlyOnePlace ==
    \A p \in Pids :
        /\ Places(p) = 1
        /\ ~(Occurrences(ready, p) > 0 /\ Occurrences(BlockedPids, p) > 0)
        /\ Occurrences(ready, p) <= 1
        /\ Occurrences(BlockedPids, p) <= 1
        /\ (completion_time[p] # Unset) <=> (Occurrences(CompletedPids, p) > 0)

\* C1 witness: mid-segment, after a sub-step that moved an I/O completion
\* from blocked to ready.
C1_Witness ==
    /\ pc = "segment"
    /\ 0 < remaining /\ remaining < segment
    /\ released # <<>>
    /\ ready # <<>>

AllCompletedOnce ==
    \A p \in Pids :
        /\ completion_time[p] # Unset
        /\ Occurrences(CompletedPids, p) = 1

\* Burst time process p still has to consume: what is left of its I/O burst
\* if it is blocked (the deque entry counts it down, the burst list does
\* not), and every burst still in its list.
RemainingWork(p) ==
    IF \E i \in 1..Len(blocked) : blocked[i].p = p
        THEN LET i == CHOOSE j \in 1..Len(blocked) : blocked[j].p = p
             IN  blocked[i].remaining_io + SumSeq(Tail(bursts[p]))
        ELSE SumSeq(bursts[p])

RECURSIVE TotalRemainingWork(_)
TotalRemainingWork(n) ==
    IF n = 0 THEN 0 ELSE RemainingWork(n - 1) + TotalRemainingWork(n - 1)

\* Ranking of the states of run(): the burst time left to consume, then the
\* position inside one iteration.
Variant ==
    3 * TotalRemainingWork(Len(lines))
        + (CASE pc = "loop" -> 1
             [] pc = "segment" /\ remaining > 0 -> 0
             [] pc = "segment" /\ ~(remaining > 0) -> 2
             [] OTHER -> 0)

\* run() has a next step and that step is defined: some branch of the loop
\* applies, the process to dispatch has a positive CPU burst in front, and
\* inside a segment p is a process with a burst in front.
RunCanStep ==
    /\ \/ pc = "loop" /\ ready # <<>>
       \/ pc = "loop" /\ ready = <<>> /\ blocked # <<>>
       \/ pc = "loop" /\ ready = <<>> /\ blocked = <<>>
       \/ pc = "segment" /\ remaining > 0
       \/ pc = "segment" /\ ~(remaining > 0)
    /\ pc = "loop" /\ ready # <<>> =>
           /\ Head(ready) \in Pids
           /\ bursts[Head(ready)] # <<>>
           /\ Head(bursts[Head(ready)]) >= 1
    /\ pc = "loop" /\ blocked # <<>> =>
           StableSortBlocked(blocked)[1].remaining_io >= 1
    /\ pc = "segment" => running \in Pids /\ bursts[running] # <<>>

\* C2: for every validated input, either discipline and any positive quantum,
\* run() terminates, only with ready and blocked both empty, and then every
\* process has exactly one Completion Record and a set completion_time.
\* Termination is stated as: every step of run() strictly lowers a ranking
\* that is a natural number (the remaining burst time, strictly consumed),
\* and run() always has a next step until it has returned.
C2_Terminates ==
    /\ [][(pc \in {"loop", "segment"}) => (Variant' < Variant)]_vars
    /\ [](Variant >= 0)
    /\ [](pc \in {"loop", "segment"} => RunCanStep)
    /\ [](RunReturned =>
            /\ ready = <<>>
            /\ blocked = <<>>
            /\ AllCompletedOnce)

\* C2 witness: run() has returned for three processes, one of which did I/O.
C2_Witness ==
    /\ RunReturned
    /\ Len(completed) = 3
    /\ \E p \in Pids : total_io[p] > 0

\* C3: when a process is recorded complete its executed_cpu is the sum of its
\* original CPU bursts (total_cpu) and its executed_io the sum of its original
\* I/O bursts (total_io); before that neither exceeds its total.
C3_Conservation ==
    \A p \in Pids :
        /\ total_cpu[p] = TotalCpu(lines[p + 1])
        /\ total_io[p] = TotalIo(lines[p + 1])
        /\ executed_cpu[p] <= total_cpu[p]
        /\ executed_io[p] <= total_io[p]
        /\ completion_time[p] # Unset =>
               /\ executed_cpu[p] = total_cpu[p]
               /\ executed_io[p] = total_io[p]

\* C3 witness: one process complete after I/O, another part-way through I/O.
C3_Witness ==
    /\ \E p \in Pids : completion_time[p] # Unset /\ total_io[p] > 0
    /\ \E p \in Pids : 0 < executed_io[p] /\ executed_io[p] < total_io[p]

\* What a dispatch is to consume: the whole burst under first-come-first-
\* served, at most the quantum under round-robin.
DueSegment ==
    IF strategy = "FCFS" THEN cpu_remaining
    ELSE IF cpu_remaining < quantum THEN cpu_remaining ELSE quantum

\* C4: a dispatch of p advances the clock and p's executed_cpu by exactly p's
\* remaining CPU burst under FCFS and by min(remaining, quantum) under RR,
\* however many sub-steps the segment takes; under FCFS no dispatch ends
\* with "quantum expired".
C4_SegmentLength ==
    /\ pc = "segment" =>
           /\ time_elapsed - dispatch_clock = DueSegment - remaining
           /\ executed_cpu[running] - dispatch_cpu = DueSegment - remaining
           /\ remaining >= 0
    /\ strategy = "FCFS" =>
           \A i \in 1..Len(events) : events[i].reason # "QUANTUM_EXPIRED"

\* C4 witness: a round-robin segment cut by the quantum, fully consumed in
\* two sub-steps.
C4_Witness ==
    /\ pc = "segment"
    /\ remaining = 0
    /\ substeps >= 2
    /\ strategy = "RR"
    /\ segment < cpu_remaining

IsPrefix(s, t) == Len(s) <= Len(t) /\ SubSeq(t, 1, Len(s)) = s

\* The process a dispatch takes is the one queued before every other queued
\* process.
FifoDispatch ==
    (pc = "loop" /\ pc' = "segment") =>
        /\ Occurrences(ready, running') > 0
        /\ \A i \in 1..Len(ready) : enq_stamp[running'] <= enq_stamp[ready[i]]

\* C5: processes are dispatched in strict FIFO order of entry into the ready
\* queue: it is seeded in pid order, every later entry (I/O completion or
\* quantum expiry) is appended at the back, and the process dispatched is the
\* one queued longest. For P0=[4], P1=[4] under round-robin with quantum 2
\* the dispatches are P0, P1, P0 (completes at clock 6), P1 (completes at 8).
C5_FifoDispatch ==
    /\ [][(pc = "init") => ready' = [i \in 1..Len(lines') |-> i - 1]]_vars
    /\ [][(pc \in {"loop", "segment"}) =>
            \/ pc = "loop" /\ pc' = "segment" /\ ready' = Tail(ready)
            \/ IsPrefix(ready, ready')]_vars
    /\ [][FifoDispatch]_vars
    /\ [](\A i, j \in 1..Len(ready) :
             i < j => enq_stamp[ready[i]] < enq_stamp[ready[j]])
    /\ [](lines = ScenarioC /\ strategy = "RR" /\ quantum = 2 /\ RunReturned =>
             events = << Event(0, 2, 0, 2, "QUANTUM_EXPIRED"),
                         Event(1, 2, 0, 4, "QUANTUM_EXPIRED"),
                         Event(0, 4, 0, 6, "COMPLETED"),
                         Event(1, 4, 0, 8, "COMPLETED") >>)

\* C5 witness: the third dispatch of that run, P0 again, ahead of P1 whose
\* quantum expired after P0's.
C5_Witness ==
    /\ lines = ScenarioC /\ strategy = "RR" /\ quantum = 2
    /\ pc = "segment" /\ substeps = 0
    /\ running = 0
    /\ ready = <<1>>
    /\ time_elapsed = 4

\* C6: a process whose I/O completes while another executes a CPU segment
\* is appended to the back of ready and does not preempt: the segment is
\* neither shortened nor interrupted and nobody else gets CPU time until it
\* is fully consumed. For P0=[2,3,2], P1=[5] under FCFS, P0 enters I/O at
\* clock 2 and returns to ready at clock 5 while P1 runs, P1 completes at 7
\* and P0 at 9.
C6_NoPreemption ==
    /\ [][(pc = "segment" /\ pc' = "segment") =>
            /\ running' = running
            /\ segment' = segment
            /\ \A q \in Pids \ {running} : executed_cpu'[q] = executed_cpu[q]
            /\ ready' = ready \o released']_vars
    /\ [][(pc = "segment" /\ pc' = "loop") =>
            /\ remaining = 0
            /\ time_elapsed - dispatch_clock = segment
            /\ executed_cpu[running] - dispatch_cpu = segment]_vars
    /\ [](lines = ScenarioD /\ strategy = "FCFS" =>
            /\ Occurrences(BlockedPids, 0) > 0 =>
                   2 <= time_elapsed /\ time_elapsed < 5
            /\ time_elapsed = 5 =>
                   /\ pc = "segment" /\ running = 1 /\ remaining = 2
                   /\ ready = <<0>> /\ blocked = <<>>
            /\ RunReturned =>
                   events = << Event(0, 2, 0, 2, "ENTER_IO"),
                               Event(1, 5, 0, 7, "COMPLETED"),
                               Event(0, 4, 3, 9, "COMPLETED") >>)

\* C6 witness: clock 5 of that run, P0 back in ready while P1 is mid-segment.
C6_Witness ==
    /\ lines = ScenarioD /\ strategy = "FCFS"
    /\ time_elapsed = 5
    /\ pc = "segment" /\ running = 1 /\ remaining = 2
    /\ released = <<0>>
    /\ ready = <<0>>

\* C7: at every iteration boundary of the dispatch loop the blocked set is
\* ordered by remaining I/O time ascending, ties by entry sequence number
\* ascending, and every entry's remaining I/O time is at least 1.
C7_BlockedOrdered ==
    pc = "loop" =>
        /\ \A i, j \in 1..Len(blocked) :
               i < j =>
                   \/ blocked[i].remaining_io < blocked[j].remaining_io
                   \/ /\ blocked[i].remaining_io = blocked[j].remaining_io
                      /\ blocked[i].order < blocked[j].order
        /\ \A i \in 1..Len(blocked) : blocked[i].remaining_io >= 1

\* C7 witness: at a boundary, an entry that blocked later stands before one
\* that blocked earlier, having less I/O time left.
C7_Witness ==
    /\ pc = "loop"
    /\ \E i, j \in 1..Len(blocked) :
           /\ i < j
           /\ blocked[i].order > blocked[j].order
           /\ blocked[i].remaining_io < blocked[j].remaining_io

PositionIn(s, x) == CHOOSE i \in 1..Len(s) : s[i] = x

RemainingIoOf(b, p) == b[CHOOSE i \in 1..Len(b) : b[i].p = p].remaining_io

\* Two blocked entries with equal remaining I/O time stay equal while both
\* are blocked and leave in the same step, the earlier-blocked one first.
TieRelease ==
    \A i, j \in 1..Len(blocked) :
        (/\ blocked[i].remaining_io = blocked[j].remaining_io
         /\ blocked[i].order < blocked[j].order) =>
            LET a == blocked[i].p
                b == blocked[j].p
            IN  /\ (Occurrences(BlockedPids', a) > 0)
                       <=> (Occurrences(BlockedPids', b) > 0)
                /\ Occurrences(BlockedPids', a) > 0 =>
                       RemainingIoOf(blocked', a) = RemainingIoOf(blocked', b)
                /\ Occurrences(BlockedPids', a) = 0 =>
                       /\ Occurrences(released', a) = 1
                       /\ Occurrences(released', b) = 1
                       /\ PositionIn(released', a) < PositionIn(released', b)
                       /\ ready' = ready \o released'
                       /\ enq_stamp'[a] < enq_stamp'[b]

\* C8: two blocked processes with equal remaining I/O time finish I/O in the
\* same advance step and are appended to ready in the order in which they
\* entered the blocked set, so the earlier-blocked one is dispatched first.
C8_TieBreakStability ==
    /\ [][TieRelease]_vars
    /\ [][FifoDispatch]_vars

\* C8 witness: a step released two processes together, the first of them
\* the one with the larger pid, which blocked earlier.
C8_Witness ==
    /\ Len(released) >= 2
    /\ released[1] > released[2]
    /\ ready = released

\* C9: the clock never decreases, and strictly increases in every
\* non-terminal iteration of the dispatch loop: every idle jump, every
\* sub-step, and so every dispatch from its start to its segment's end.
C9_MonotonicClock ==
    /\ [][time_elapsed' >= time_elapsed]_vars
    /\ [][(pc = "loop" /\ pc' = "loop") => (time_elapsed' > time_elapsed)]_vars
    /\ [][(pc = "segment" /\ pc' = "segment") =>
            (time_elapsed' > time_elapsed)]_vars
    /\ [][(pc = "segment" /\ pc' = "loop") =>
            (time_elapsed > dispatch_clock)]_vars

\* C9 witness: the boundary after an idle jump that followed a dispatch.
C9_Witness ==
    /\ pc = "loop"
    /\ released # <<>>
    /\ events # <<>>
    /\ time_elapsed > dispatch_clock

\* C10: the reported wait, completion_time - (total_cpu + total_io), is the
\* simulated time the process spent queued in ready (neither executing nor
\* doing I/O) up to its completion, and is never negative.
C10_WaitIsReadyTime ==
    \A p \in Pids :
        completion_time[p] # Unset =>
            /\ Wait(p) = ready_wait[p]
            /\ Wait(p) >= 0

\* C10 witness: a completed process that did I/O and also queued.
C10_Witness ==
    \E p \in Pids :
        /\ completion_time[p] # Unset
        /\ total_io[p] > 0
        /\ ready_wait[p] > 0

(***************************************************************************)
(* C11  final statistics order                                             *)
(***************************************************************************)
StatsPrinted == pc \in {"printed", "finished"}

\* Position of p's COMPLETED event among the events, which is the order in
\* which the completion records were appended.
AppendIndex(p) ==
    CHOOSE i \in 1..Len(events) :
        events[i].pid = p /\ events[i].reason = "COMPLETED"

\* C11: once the reporter has run there is exactly one statistics event per
\* process, the events are in ascending completion time, and two processes
\* with the same completion time appear in the order their completion records
\* were appended; before the reporter runs nothing has been emitted.
C11_StatsOrder ==
    /\ ~StatsPrinted => stats = <<>>
    /\ StatsPrinted =>
        /\ Len(stats) = Len(lines)
        /\ \A p \in Pids :
               Cardinality({i \in 1..Len(stats) : stats[i].pid = p}) = 1
        /\ \A i, j \in 1..Len(stats) :
               i < j =>
                   LET a == stats[i].pid
                       b == stats[j].pid
                   IN  \/ completion_time[a] < completion_time[b]
                       \/ /\ completion_time[a] = completion_time[b]
                          /\ AppendIndex(a) < AppendIndex(b)
        /\ \A i \in 1..Len(stats) :
               stats[i] = StatsEvent(stats[i].pid)

\* The reporter ran on three processes that finished in an order other than
\* pid order.
C11_Witness ==
    /\ StatsPrinted
    /\ Len(stats) = 3
    /\ \E i \in 1..2 : stats[i].pid > stats[i + 1].pid

(***************************************************************************)
(* C13  a single process                                                   *)
(***************************************************************************)
\* C13: with one process in the input, under either discipline and any
\* quantum, the process completes at the clock equal to the sum of all its
\* bursts, with turnaround equal to that sum and wait 0.  Bursts [5] complete
\* at clock 5.  Bursts [3, 2, 4] enter I/O at clock 3, the idle jump takes the
\* clock from 3 to 5, and the process completes at clock 9; under FCFS the
\* clock takes no other value than 0, 3, 5 and 9.
C13_SingleProcess ==
    /\ (Len(lines) = 1 /\ completion_time[0] # Unset) =>
           /\ completion_time[0] = SumSeq(lines[1])
           /\ Turnaround(0) = SumSeq(lines[1])
           /\ Wait(0) = 0
           /\ completed = <<<<SumSeq(lines[1]), 0>>>>
    /\ (Len(lines) = 1 /\ RunReturned) => completion_time[0] # Unset
    /\ (lines = ScenarioA /\ RunReturned) =>
           /\ time_elapsed = 5
           /\ completion_time[0] = 5
    /\ lines = ScenarioB =>
           /\ strategy = "FCFS" => time_elapsed \in {0, 3, 5, 9}
           /\ blocked # <<>> =>
                  /\ time_elapsed = 3
                  /\ executed_cpu[0] = 3
                  /\ blocked[1].remaining_io = 2
           /\ (pc = "loop" /\ executed_cpu[0] = 3 /\ blocked = <<>>) =>
                  /\ time_elapsed = 5
                  /\ executed_io[0] = 2
                  /\ ready = <<0>>
           /\ RunReturned =>
                  /\ time_elapsed = 9
                  /\ completion_time[0] = 9
                  /\ Turnaround(0) = 9
                  /\ total_cpu[0] = 7
                  /\ total_io[0] = 2
                  /\ events[Len(events)] = Event(0, 7, 2, 9, "COMPLETED")

\* The run on bursts [3, 2, 4] has returned under round-robin.
C13_Witness ==
    /\ lines = ScenarioB
    /\ strategy = "RR"
    /\ RunReturned
    /\ completion_time[0] = 9

mainVars ==
    <<lines, strategy, quantum, time_elapsed, ready, blocked, bursts,
      executed_cpu, executed_io, total_cpu, total_io, completion_time,
      completed, order_counter, pc, running, cpu_remaining, segment, remaining,
      events, enq_stamp, enq_counter, ready_wait, dispatch_clock, dispatch_cpu,
      substeps, released, done, main_pc, stats, io_enter>>

\* The simulation variables while a side specification runs: the constructed,
\* empty Simulation.
MainIdle ==
    /\ lines = <<>>
    /\ strategy = "FCFS"
    /\ quantum = 1
    /\ time_elapsed = 0
    /\ ready = <<>>
    /\ blocked = <<>>
    /\ bursts = <<>>
    /\ executed_cpu = <<>>
    /\ executed_io = <<>>
    /\ total_cpu = <<>>
    /\ total_io = <<>>
    /\ completion_time = <<>>
    /\ completed = <<>>
    /\ order_counter = 0
    /\ pc = "init"
    /\ running = NoProc
    /\ cpu_remaining = 0
    /\ segment = 0
    /\ remaining = 0
    /\ events = <<>>
    /\ enq_stamp = <<>>
    /\ enq_counter = 0
    /\ ready_wait = <<>>
    /\ dispatch_clock = 0
    /\ dispatch_cpu = 0
    /\ substeps = 0
    /\ released = <<>>
    /\ done = FALSE
    /\ main_pc = "setup"
    /\ stats = <<>>
    /\ io_enter = <<>>

\* The sequences of at most n remaining_io values, each in 1..AdvMaxIo.
RECURSIVE IoLists(_)
IoLists(n) ==
    IF n = 0 THEN {<<>>}
    ELSE IoLists(n - 1)
           \cup {Append(l, d) : l \in {m \in IoLists(n - 1) : Len(m) = n - 1},
                                d \in 1..AdvMaxIo}

\* move_to_blocked called for processes 0 .. Len(ios)-1 in turn, from index i.
RECURSIVE BlockAll(_, _, _)
BlockAll(S, i, n) ==
    IF i >= n THEN S ELSE BlockAll(MoveToBlocked(S, i), i + 1, n)

\* A Simulation whose processes have each drained a CPU burst and been moved
\* to blocked by move_to_blocked, process p with the I/O burst ios[p + 1]
\* and one CPU burst after it.
AdvStart(ios) ==
    LET ids == 0..(Len(ios) - 1)
    IN  BlockAll([ready         |-> <<>>,
                  blocked       |-> <<>>,
                  bursts        |-> [p \in ids |-> <<0, ios[p + 1], 1>>],
                  executed_io   |-> [p \in ids |-> 0],
                  order_counter |-> 0,
                  enq_stamp     |-> [p \in ids |-> p],
                  enq_counter   |-> Len(ios),
                  released      |-> <<>>],
                 0, Len(ios))

\* advance_blocked(dt) as a call: the function has no assert, throw or other
\* exit than falling off its end, so whatever dt is it returns normally with
\* the state its loop leaves.
AdvanceBlockedCall(S, dt) ==
    [outcome |-> "returned", S |-> AdvanceBlocked(S, dt)]

AdvInit ==
    /\ MainIdle
    /\ pair = <<>>
    /\ call \in {[phase |-> "called", dt |-> d, before |-> AdvStart(ios),
                  outcome |-> "none", after |-> AdvStart(ios)] :
                     ios \in IoLists(AdvProcs), d \in (-AdvMaxDt)..AdvMaxDt}

ApplyAdvance ==
    /\ call.phase = "called"
    /\ call' = [call EXCEPT
                   !.phase = "done",
                   !.outcome = AdvanceBlockedCall(call.before, call.dt).outcome,
                   !.after = AdvanceBlockedCall(call.before, call.dt).S]
    /\ UNCHANGED <<mainVars, pair>>

AdvNext == ApplyAdvance

AdvanceSpec == AdvInit /\ [][AdvNext]_vars

\* C15: a call of advance_blocked with a negative amount ends in an error
\* outcome (an assertion failure or its equivalent), not in a normal return.
C15_NegativeAdvanceFails ==
    (call.phase = "done" /\ call.dt < 0) => call.outcome = "error"

\* What the code does instead: the call returns normally and every field of
\* the Simulation is as before the call.
C15_NegativeAdvanceIsNoOp ==
    (call.phase = "done" /\ call.dt < 0) =>
        /\ call.outcome = "returned"
        /\ call.after = call.before

\* A call with a negative amount on a non-empty blocked deque has returned.
C15_Witness ==
    /\ call.phase = "done"
    /\ call.dt < 0
    /\ call.before.blocked # <<>>

(***************************************************************************)
(* C16  I/O completions are neither skipped, delayed nor double-counted    *)
(***************************************************************************)
\* The clock at which the I/O burst p last entered blocked with is due.
DueClock(p) == io_enter[p].clock + io_enter[p].burst

\* Every blocked entry is still before its due clock, with exactly the time
\* to it left, and its process has been credited the I/O time gone by.
BlockedOnSchedule ==
    \A i \in 1..Len(blocked) :
        LET p == blocked[i].p
        IN  /\ blocked[i].remaining_io = DueClock(p) - time_elapsed
            /\ blocked[i].remaining_io > 0
            /\ executed_io[p] = io_enter[p].io + (time_elapsed - io_enter[p].clock)

\* A step that moves the clock releases exactly the entries that are due at
\* the new clock, each once, with the whole burst credited.
ReleasedOnTime ==
    /\ \A i \in 1..Len(blocked) :
           LET p == blocked[i].p
           IN  (DueClock(p) <= time_elapsed')
                   <=> (Occurrences(released', p) = 1)
    /\ \A k \in 1..Len(released') :
           LET p == released'[k]
           IN  /\ Occurrences(BlockedPids, p) = 1
               /\ Occurrences(BlockedPids', p) = 0
               /\ Occurrences(ready, p) = 0
               /\ Occurrences(ready', p) = 1
               /\ Occurrences(released', p) = 1
               /\ time_elapsed' = DueClock(p)
               /\ executed_io'[p] = io_enter[p].io + io_enter[p].burst
               /\ bursts'[p] = Tail(bursts[p])
    /\ enq_counter' = enq_counter + Len(released')
    /\ Len(blocked') = Len(blocked) - Len(released')

\* C16: a process that enters blocked at clock t with an I/O burst d is
\* appended to ready exactly once for that burst, in the step that takes the
\* clock to exactly t + d, with executed_io raised by exactly d, during a CPU
\* segment or an idle jump alike; and no step advances the blocked set by
\* more than the smallest remaining_io in it.
C16_IoCompletionExact ==
    /\ []BlockedOnSchedule
    /\ [][(time_elapsed' # time_elapsed) => ReleasedOnTime]_vars
    /\ [][(time_elapsed' = time_elapsed) =>
              (\A p \in Pids : Occurrences(ready', p) > Occurrences(ready, p)
                                   => running = p)]_vars
    /\ [][\A i \in 1..Len(blocked) :
              time_elapsed' - time_elapsed <= blocked[i].remaining_io]_vars

\* An I/O burst of 2 or more, entered at a clock other than the start, has
\* just been released in the middle of another process's CPU segment.
C16_Witness ==
    /\ pc = "segment"
    /\ remaining > 0
    /\ \E k \in 1..Len(released) :
           /\ io_enter[released[k]].burst >= 2
           /\ io_enter[released[k]].clock > 0
           /\ time_elapsed = DueClock(released[k])

(***************************************************************************)
(* C17  order of a segment's end and the I/O completions of its clock      *)
(***************************************************************************)
\* The processes other than p whose I/O completed after clock `from` and no
\* later than the current clock.
CompletedIoSince(p, from) ==
    {q \in Pids \ {p} : /\ io_enter[q].burst > 0
                        /\ from < DueClock(q)
                        /\ DueClock(q) <= time_elapsed}

\* The end of a segment whose CPU burst is not finished.
QuantumExpiry ==
    /\ pc = "segment"
    /\ pc' = "loop"
    /\ Head(bursts[running]) > 0

\* The end of a segment whose CPU burst is finished and followed by I/O.
EnterIo ==
    /\ pc = "segment"
    /\ pc' = "loop"
    /\ Head(bursts[running]) = 0
    /\ Tail(bursts[running]) # <<>>

\* C17: when the quantum expires, the process goes to the back of ready with
\* the rest of its CPU burst kept, behind every process whose I/O completed
\* during the segment, the ones completing at the very clock of the expiry
\* included; and when a process enters I/O at clock t, every I/O completion
\* of clock t is already in ready and none is left in blocked.
C17_ExpiryBehindCompletions ==
    /\ [][QuantumExpiry =>
            /\ strategy = "RR"
            /\ segment = quantum
            /\ time_elapsed = dispatch_clock + quantum
            /\ ready' = Append(ready, running)
            /\ bursts' = bursts
            /\ Head(bursts'[running]) = cpu_remaining - quantum
            /\ events'[Len(events')] =
                   Event(running, executed_cpu[running], executed_io[running],
                         time_elapsed, "QUANTUM_EXPIRED")
            /\ \A q \in CompletedIoSince(running, dispatch_clock) :
                   /\ Occurrences(ready', q) = 1
                   /\ PositionIn(ready', q) < Len(ready')
                   /\ Occurrences(BlockedPids', q) = 0
            /\ \A i \in 1..Len(blocked') :
                   DueClock(blocked'[i].p) > time_elapsed]_vars
    /\ [][EnterIo =>
            /\ ready' = ready
            /\ Occurrences(BlockedPids', running) = 1
            /\ \A q \in CompletedIoSince(running, dispatch_clock) :
                   /\ Occurrences(ready, q) = 1
                   /\ Occurrences(BlockedPids', q) = 0
            /\ \A i \in 1..Len(blocked) :
                   DueClock(blocked[i].p) > time_elapsed]_vars

\* A quantum has just expired at the clock at which another process's I/O
\* completed: that process is in ready, the expired one behind it.
C17_Witness ==
    /\ pc = "loop"
    /\ events # <<>>
    /\ events[Len(events)].reason = "QUANTUM_EXPIRED"
    /\ events[Len(events)].time = time_elapsed
    /\ ready # <<>>
    /\ ready[Len(ready)] = events[Len(events)].pid
    /\ \E i \in 1..(Len(ready) - 1) :
           /\ io_enter[ready[i]].burst > 0
           /\ DueClock(ready[i]) = time_elapsed

(***************************************************************************)
(* C18  the idle jump                                                      *)
(***************************************************************************)
\* The smallest remaining_io of a non-empty blocked deque.
SmallestRemaining(b) ==
    CHOOSE m \in {b[i].remaining_io : i \in 1..Len(b)} :
        \A i \in 1..Len(b) : m <= b[i].remaining_io

\* The pids of the entries of b with the smallest remaining_io, in the order
\* of stable_sort_blocked.
EarliestDue(b) ==
    LET m       == SmallestRemaining(b)
        Due(e)  == e.remaining_io = m
        due     == SelectSeq(StableSortBlocked(b), Due)
    IN  [i \in 1..Len(due) |-> due[i].p]

\* A step in which the clock moves while no process holds the CPU.
IdleStep ==
    /\ pc = "loop"
    /\ time_elapsed' # time_elapsed

\* The state an idle jump leaves: at the top of the loop with releases made.
AfterIdleJump ==
    /\ pc = "loop"
    /\ released # <<>>

\* C18: the clock moves without a process on the CPU only when ready is
\* empty and blocked is not; that step advances the clock by exactly the
\* smallest remaining_io in blocked and moves every entry with that
\* remaining_io, and no other, to ready; ready is then non-empty and the
\* next step of run() is a dispatch of its front.
C18_IdleJump ==
    /\ [][IdleStep =>
            /\ running = NoProc
            /\ ready = <<>>
            /\ blocked # <<>>
            /\ time_elapsed' = time_elapsed + SmallestRemaining(blocked)
            /\ released' = EarliestDue(blocked)
            /\ ready' = EarliestDue(blocked)
            /\ ready' # <<>>
            /\ Len(blocked') = Len(blocked) - Len(ready')
            /\ \A i \in 1..Len(blocked') : blocked'[i].remaining_io > 0
            /\ pc' = "loop"]_vars
    /\ [](AfterIdleJump => ready = released)
    /\ [][AfterIdleJump =>
            /\ pc' = "segment"
            /\ running' = Head(ready)
            /\ time_elapsed' = time_elapsed]_vars
    /\ [][(pc = "loop" /\ (ready # <<>> \/ blocked = <<>>)) =>
              time_elapsed' = time_elapsed]_vars

\* An idle jump has just moved two processes with equal remaining I/O time
\* to ready, the one blocked first in front.
C18_Witness ==
    /\ AfterIdleJump
    /\ Len(released) = 2
    /\ ready = released
    /\ io_enter[ready[1]].clock < io_enter[ready[2]].clock

(***************************************************************************)
(* C19  completion times are strictly increasing                           *)
(***************************************************************************)
\* The pids of the COMPLETED events, in the order the events were emitted,
\* which is the order the completion records were appended.
RECURSIVE CompletedEventPids(_)
CompletedEventPids(ev) ==
    IF ev = <<>> THEN <<>>
    ELSE IF Last(ev).reason = "COMPLETED"
        THEN Append(CompletedEventPids(Front(ev)), Last(ev).pid)
        ELSE CompletedEventPids(Front(ev))

\* C19: the completion records carry strictly increasing completion times, so
\* no two processes complete at the same clock; the list equals its own sort
\* by (completion time, pid) at every moment, and the reporter's statistics
\* come out in the order the records were appended.
C19_StrictlyIncreasing ==
    /\ \A i, j \in 1..Len(completed) :
           i < j => completed[i][1] < completed[j][1]
    /\ \A p, q \in Pids :
           (p # q /\ completion_time[p] # Unset) =>
               completion_time[p] # completion_time[q]
    /\ SortCompleted(completed) = completed
    /\ CompletedPids = CompletedEventPids(events)
    /\ StatsPrinted =>
           [i \in 1..Len(stats) |-> stats[i].pid] = CompletedEventPids(events)

\* The reporter has sorted three records whose append order is not pid
\* order: sorting by pid would have changed the list.
C19_Witness ==
    /\ pc = "printed"
    /\ Len(completed) = 3
    /\ completed[1][2] > completed[3][2]

(***************************************************************************)
(* C20  round-robin with a large quantum against first-come-first-served   *)
(***************************************************************************)
\* A Simulation held as one value, so that two can be stepped side by side.
\* The Simulation after init_from_lines(ls) under strategy strat, quantum q.
RunStart(ls, strat, q) ==
    LET ids == 0..(Len(ls) - 1)
    IN  [strategy        |-> strat,
         quantum         |-> q,
         time_elapsed    |-> 0,
         ready           |-> SeedReady(Len(ls)),
         blocked         |-> <<>>,
         bursts          |-> [p \in ids |-> ls[p + 1]],
         executed_cpu    |-> [p \in ids |-> 0],
         executed_io     |-> [p \in ids |-> 0],
         completion_time |-> [p \in ids |-> Unset],
         completed       |-> <<>>,
         order_counter   |-> 0,
         pc              |-> "loop",
         running         |-> NoProc,
         remaining       |-> 0,
         events          |-> <<>>,
         enq_stamp       |-> [p \in ids |-> p],
         enq_counter     |-> Len(ls),
         released        |-> <<>>]

\* run(), top of the loop with ready non-empty: pop and size the segment.
RunDispatch(R) ==
    LET p == Head(R.ready)
    IN  [R EXCEPT !.running = p,
                  !.ready = Tail(@),
                  !.remaining = SegmentLength(R.strategy, Head(R.bursts[p]),
                                              R.quantum),
                  !.released = <<>>,
                  !.pc = "segment"]

\* run(), one pass of `while (remaining > 0)`.
RunSubStep(R) ==
    LET p      == R.running
        sorted == StableSortBlocked(R.blocked)
        step   == SubStepLength(R.remaining, sorted)
        S1     == AdvanceBlocked([R EXCEPT !.blocked = sorted,
                                           !.bursts[p][1] = @ - step,
                                           !.released = <<>>], step)
    IN  [S1 EXCEPT !.executed_cpu[p] = @ + step,
                   !.time_elapsed = @ + step,
                   !.remaining = @ - step]

\* run(), after the segment: completed, entering I/O, or quantum expired.
RunSegmentEnd(R) ==
    LET p  == R.running
        t  == R.time_elapsed
        R0 == [R EXCEPT !.pc = "loop", !.running = NoProc, !.released = <<>>]
    IN  IF Head(R.bursts[p]) = 0
        THEN LET popped == Tail(R.bursts[p])
             IN  IF popped = <<>>
                 THEN [R0 EXCEPT
                         !.bursts[p] = popped,
                         !.completion_time[p] = t,
                         !.completed = Append(@, <<t, p>>),
                         !.events = Append(@,
                             Event(p, R.executed_cpu[p], R.executed_io[p], t,
                                   "COMPLETED"))]
                 ELSE [MoveToBlocked([R0 EXCEPT !.bursts[p] = popped], p)
                          EXCEPT !.events = Append(@,
                              Event(p, R.executed_cpu[p], R.executed_io[p], t,
                                    "ENTER_IO"))]
        ELSE [EnqueueReady(R0, p) EXCEPT
                 !.events = Append(@,
                     Event(p, R.executed_cpu[p], R.executed_io[p], t,
                           "QUANTUM_EXPIRED"))]

\* run(), ready empty and blocked not: jump to the earliest I/O completion.
RunIdleJump(R) ==
    LET sorted == StableSortBlocked(R.blocked)
        step   == sorted[1].remaining_io
        S1     == AdvanceBlocked([R EXCEPT !.blocked = sorted,
                                           !.released = <<>>], step)
    IN  [S1 EXCEPT !.time_elapsed = @ + step]

\* One step of run() on the Simulation R; a returned run stays as it is.
RunStep(R) ==
    IF R.pc = "loop"
        THEN IF R.ready # <<>> THEN RunDispatch(R)
             ELSE IF R.blocked # <<>> THEN RunIdleJump(R)
             ELSE [R EXCEPT !.pc = "returned"]
    ELSE IF R.pc = "segment"
        THEN IF R.remaining > 0 THEN RunSubStep(R) ELSE RunSegmentEnd(R)
    ELSE R

\* The simulation variables as one such value.
SimView ==
    [strategy        |-> strategy,
     quantum         |-> quantum,
     time_elapsed    |-> time_elapsed,
     ready           |-> ready,
     blocked         |-> blocked,
     bursts          |-> bursts,
     executed_cpu    |-> executed_cpu,
     executed_io     |-> executed_io,
     completion_time |-> completion_time,
     completed       |-> completed,
     order_counter   |-> order_counter,
     pc              |-> pc,
     running         |-> running,
     remaining       |-> remaining,
     events          |-> events,
     enq_stamp       |-> enq_stamp,
     enq_counter     |-> enq_counter,
     released        |-> released]

\* RunStep is the simulation specification's step: every step of run() in
\* Spec takes SimView to RunStep(SimView).
RunStepIsNext ==
    [][(pc \in {"loop", "segment"}) => (SimView' = RunStep(SimView))]_vars

PairInputs == UNION {InputsOf(n, PairTotal) : n \in 1..PairProcs}

\* Run a under either strategy and any quantum, run b under FCFS with
\* quantum 1, both from the same input.
PairInit ==
    /\ MainIdle
    /\ call = <<>>
    /\ pair \in {[a |-> RunStart(ls, s, q), b |-> RunStart(ls, "FCFS", 1),
                  lines |-> ls] :
                    ls \in PairInputs, s \in {"FCFS", "RR"},
                    q \in 1..PairMaxQuantum}

\* Both runs take their next step.
PairStep ==
    /\ ~(pair.a.pc = "returned" /\ pair.b.pc = "returned")
    /\ pair' = [pair EXCEPT !.a = RunStep(pair.a), !.b = RunStep(pair.b)]
    /\ UNCHANGED <<mainVars, call>>

PairNext == PairStep

PairSpec == PairInit /\ [][PairNext]_vars

\* The CPU bursts (odd positions) of a burst line.
CpuBursts(bl) == {bl[2 * k - 1] : k \in 1..((Len(bl) + 1) \div 2)}

\* q is greater than or equal to every CPU burst of every process of ls.
QuantumCoversBursts(ls, q) ==
    \A i \in 1..Len(ls) : \A c \in CpuBursts(ls[i]) : q >= c

\* Everything of two Simulations but the configured strategy and quantum.
SameRun(a, b) ==
    /\ a.ready = b.ready
    /\ a.blocked = b.blocked
    /\ a.time_elapsed = b.time_elapsed
    /\ a.events = b.events
    /\ a.pc = b.pc
    /\ a.running = b.running
    /\ a.remaining = b.remaining
    /\ a.bursts = b.bursts
    /\ a.executed_cpu = b.executed_cpu
    /\ a.executed_io = b.executed_io
    /\ a.completion_time = b.completion_time
    /\ a.completed = b.completed

\* C20: stepped side by side from the same input, a round-robin run whose
\* quantum is at least every CPU burst and a first-come-first-served run have
\* the same ready queue, blocked deque, clock, events and position at every
\* step, and the round-robin run emits no QUANTUM_EXPIRED event; and a
\* first-come-first-served run is the same whatever its quantum.
C20_LargeQuantumIsFcfs ==
    (\/ pair.a.strategy = "FCFS"
     \/ QuantumCoversBursts(pair.lines, pair.a.quantum)) =>
        /\ SameRun(pair.a, pair.b)
        /\ \A i \in 1..Len(pair.a.events) :
               pair.a.events[i].reason # "QUANTUM_EXPIRED"

\* A round-robin run of two processes, one of them doing I/O, has returned
\* with a quantum that some CPU burst equals and that is below the clock.
C20_Witness ==
    /\ pair.a.strategy = "RR"
    /\ pair.a.pc = "returned"
    /\ Len(pair.lines) = 2
    /\ QuantumCoversBursts(pair.lines, pair.a.quantum)
    /\ \E i \in 1..2 : pair.a.quantum \in CpuBursts(pair.lines[i])
    /\ \E i \in 1..Len(pair.a.events) : pair.a.events[i].reason = "ENTER_IO"
    /\ pair.a.quantum < pair.a.time_elapsed

====
